---- MODULE Spec2Model ----
(***************************************************************************)
(* A model of src-tauri/src/utils/resolve.rs of clash-verge-rev: the       *)
(* application bootstrap (resolve_setup), the teardown (resolve_reset),    *)
(* the main-window lifecycle (create_window, save_window_size_position),   *)
(* the random-port probe (find_unused_port) and the scheme import          *)
(* (resolve_scheme).                                                       *)
(*                                                                         *)
(* Conventions.                                                            *)
(*  - Option<T> is a sequence: None is <<>> and Some(v) is <<v>>.          *)
(*  - Result<T> is a record [ok |-> BOOLEAN, val |-> T].                   *)
(*  - f64 window measures are integers; a u32 is a pair of 16-bit halves.  *)
(*  - Config::verge().latest() and Config::verge().data() read the same    *)
(*    document: no draft is open while these functions run.                *)
(*  - The outcome of every collaborator the code calls (init::*, sysopt,   *)
(*    tray, hotkey, timer, CoreManager, the OS bind, the window system's   *)
(*    build, PrfItem::from_url, append_item, Notification::show) is an     *)
(*    input of the action that calls it, drawn with \E.                    *)
(***************************************************************************)
EXTENDS Integers, Sequences, FiniteSets, TLC

VARIABLES
    pc,        \* position of the bootstrap thread in resolve_setup
    rpc,       \* position in resolve_reset
    verge,     \* Config::verge(): the verge settings document
    clash,     \* Config::clash(): the clash mapping (key "mixed-port")
    disk,      \* the files written by save_file / save_config
    argvs,     \* std::env::args(): program name followed by the arguments
    port,      \* the local `port` of resolve_setup (<<>> before it is set)
    probe,     \* the outcome of the find_unused_port call (<<>>: not called)
    log,       \* the steps of resolve_setup started so far, in order
    rlog,      \* the steps of resolve_reset started so far, in order
    errs,      \* the steps whose error was logged by log_err!
    core,      \* the core process: "off", "running", "failed", "stopped"
    sysproxy,  \* the system proxy: "unset", "set", "failed", "restored"
    screen,    \* the monitor of the main window: <<width, height, scale factor>>
    platform,  \* target_os of the build
    wins,      \* the live windows labelled "main", oldest first
    nbuilt,    \* number of windows labelled "main" built so far
    ncalls,    \* number of create_window calls made after the bootstrap
    imports,   \* one record per finished resolve_scheme run
    notes,     \* the notifications shown, in order
    applog,    \* the log::error! lines of resolve_scheme
    profiles,  \* Config::profiles(): the items appended
    holder,    \* who holds the port of `port`: "free", "probe", "core", "other"
    lastsave   \* the last save_window_size_position call (<<>>: none yet)

vars == <<pc, rpc, verge, clash, disk, argvs, port, probe, log, rlog, errs,
          core, sysproxy, screen, platform, wins, nbuilt, ncalls, imports, notes, applog,
          profiles, holder, lastsave>>

----------------------------------------------------------------------------
(* Bounds of the model.                                                    *)

\* at most this many steps of one run fail
MaxErrs == 1
\* at most this many recognized prefixes lead an input of resolve_scheme
MaxParts == 3
\* at most this many create_window calls follow the bootstrap
MaxCalls == 2
\* at most this many save_window_size_position calls are made
MaxSaves == 2

----------------------------------------------------------------------------
(* Option and Result.                                                      *)

None == <<>>
Some(v) == <<v>>
unwrap_or(o, d) == IF o = None THEN d ELSE o[1]

Ok(v) == [ok |-> TRUE, val |-> v]
Err == [ok |-> FALSE, val |-> 0]
result_unwrap_or(r, d) == IF r.ok THEN r.val ELSE d

OptBool == {None, Some(TRUE), Some(FALSE)}

Max(a, b) == IF a >= b THEN a ELSE b

----------------------------------------------------------------------------
(* Strings: str::trim_start_matches.                                       *)

PrefixSlash == "clash://install-config/?url="
PrefixPlain == "clash://install-config?url="

starts_with(s, p) == Len(s) >= Len(p) /\ SubSeq(s, 1, Len(p)) = p

\* s with its first n characters dropped
drop(s, n) == SubSeq(s, n + 1, Len(s))

\* str::trim_start_matches(pat): "a string slice with all prefixes that match
\* a pattern repeatedly removed"
RECURSIVE trim_start_matches(_, _)
trim_start_matches(s, pat) ==
    IF Len(pat) > 0 /\ starts_with(s, pat)
    THEN trim_start_matches(drop(s, Len(pat)), pat)
    ELSE s

\* the `url` of resolve_scheme
scheme_url(param) ==
    trim_start_matches(trim_start_matches(param, PrefixSlash), PrefixPlain)

----------------------------------------------------------------------------
(* The macros log_err! and trace_err! of the crate only write a log line   *)
(* when their argument is an Err; neither returns from the caller.  A      *)
(* window-system call on a live window (trace_err! at lines 117-119, 197,  *)
(* 203) is modelled by its effect on the window.                           *)

\* log_err!(result): the steps whose error has been logged
log_err(logged, step, ok) == IF ok THEN logged ELSE logged \cup {step}

----------------------------------------------------------------------------
(* Port resolution.                                                        *)

\* Config::clash().data().get_mixed_port()
get_mixed_port(cl) == cl.mixed_port

\* the fallback read at lines 26-29, 50-53 and 57-60
configured_port(vg, cl) == unwrap_or(vg.verge_mixed_port, get_mixed_port(cl))

\* variant of find_unused_port whose bind-failure branch forgets the
\* configured verge_mixed_port
find_unused_port_clash_default(vg, cl, bindOk, addrOk, osPort) ==
    IF bindOk
    THEN IF addrOk THEN Ok(osPort) ELSE Err
    ELSE Ok(get_mixed_port(cl))

\* find_unused_port(): bindOk is the outcome of TcpListener::bind, addrOk of
\* listener.local_addr(), osPort the port the OS assigned
find_unused_port(vg, cl, bindOk, addrOk, osPort) ==
    IF bindOk
    THEN IF addrOk THEN Ok(osPort) ELSE Err
    ELSE Ok(configured_port(vg, cl))

\* lines 48-62 of resolve_setup: the value of `port`
resolved_port(vg, cl, bindOk, addrOk, osPort) ==
    LET enable_random_port == unwrap_or(vg.enable_random_port, FALSE)
        port0 == configured_port(vg, cl)
    IN  IF enable_random_port
        THEN result_unwrap_or(find_unused_port(vg, cl, bindOk, addrOk, osPort),
                              configured_port(vg, cl))
        ELSE port0

----------------------------------------------------------------------------
(* The main window.                                                        *)

MinWidth == 600
MinHeight == 520
DefaultWidth == 800
DefaultHeightWindows == 636
DefaultHeightOther == 642

\* app_handle.get_window("main")
get_window(ws) == IF ws = <<>> THEN None ELSE Some(ws[1])

\* a u32 is the pair <<high half, low half>> of its two 16-bit halves
Half == 65536
u32(n) == <<n \div Half, n % Half>>

\* `measure - by` on u32 leaves the range of u32
sub_overflows(measure, by) == measure[1] = 0 /\ measure[2] < by

\* `measure - by` on u32 as a build without overflow checks computes it
wrapping_sub(measure, by) ==
    IF measure[2] >= by
    THEN <<measure[1], measure[2] - by>>
    ELSE <<(measure[1] - 1) % Half, measure[2] + Half - by>>

\* `word as i32`: the same 32 bits read as a signed integer
as_i32(word) ==
    (IF word[1] >= Half \div 2 THEN word[1] - Half ELSE word[1]) * Half + word[2]

\* a logical size or position in the physical pixels of a monitor of this
\* scale factor, as inner_size(w, h) and position(x, y) of the builder take it
to_physical(v, scale) == <<v[1] * scale, v[2] * scale>>

\* PhysicalSize::to_logical(scale) and PhysicalPosition::to_logical(scale)
to_logical(v, scale) == <<v[1] \div scale, v[2] \div scale>>

\* (measure - len) / 2 for a u32 measure of the monitor
center_coord(measure, len) ==
    measure[1] * (Half \div 2) + measure[2] \div 2 - len \div 2
        - (IF measure[2] % 2 = 0 /\ len % 2 = 1 THEN 1 ELSE 0)

\* builder.center() / win.center(): the top-left corner of a centred window
center_pos(scr, size) ==
    <<center_coord(scr[1], size[1]), center_coord(scr[2], size[2])>>

\* the condition of lines 187-190, evaluated left to right: `verdict` is
\* "center" when it holds, "keep" when it does not, "panic" when a
\* subtraction overflows in a build with overflow checks (`checks`);
\* `bounds` are the values of (size.width - 200) as i32 and
\* (size.height - 200) as i32 that were computed
off_screen(pos, scr, checks) ==
    LET bx == as_i32(wrapping_sub(scr[1], 200))
        by == as_i32(wrapping_sub(scr[2], 200))
    IN  IF pos[1] < -400
        THEN [verdict |-> "center", bounds |-> <<>>]
        ELSE IF checks /\ sub_overflows(scr[1], 200)
        THEN [verdict |-> "panic", bounds |-> <<>>]
        ELSE IF pos[1] > bx \/ pos[2] < -200
        THEN [verdict |-> "center", bounds |-> <<bx>>]
        ELSE IF checks /\ sub_overflows(scr[2], 200)
        THEN [verdict |-> "panic", bounds |-> <<bx>>]
        ELSE [verdict |-> IF pos[2] > by THEN "center" ELSE "keep",
              bounds |-> <<bx, by>>]

\* variant of lines 133-157 that does not clamp a persisted size
builder_rect_unclamped(vg, plat) ==
    LET wsp == vg.window_size_position
    IN  IF wsp # None /\ Len(wsp[1]) = 4
        THEN [persisted |-> TRUE,
              size |-> <<wsp[1][1], wsp[1][2]>>,
              pos |-> <<wsp[1][3], wsp[1][4]>>]
        ELSE [persisted |-> FALSE,
              size |-> <<DefaultWidth,
                         IF plat = "windows" THEN DefaultHeightWindows
                                             ELSE DefaultHeightOther>>,
              pos |-> <<>>]

\* lines 133-157: the logical inner size and position handed to the builder;
\* `pos` is <<>> where the builder is told to center the window
builder_rect(vg, plat) ==
    LET wsp == vg.window_size_position
    IN  IF wsp # None /\ Len(wsp[1]) = 4
        THEN [persisted |-> TRUE,
              size |-> <<Max(wsp[1][1], MinWidth), Max(wsp[1][2], MinHeight)>>,
              pos |-> <<wsp[1][3], wsp[1][4]>>]
        ELSE [persisted |-> FALSE,
              size |-> <<DefaultWidth,
                         IF plat = "windows" THEN DefaultHeightWindows
                                             ELSE DefaultHeightOther>>,
              pos |-> <<>>]

\* variant of line 129 that leaves the builder's default: a visible window
builder_visible_default == TRUE

\* line 129 (and 164 on windows): .visible(false)
builder_visible == FALSE

\* lines 123-205: the window after a successful build.  monOk is the outcome
\* of win.current_monitor() (Ok(Some)), posOk of win.outer_position(), checks
\* tells whether the build has overflow checks.  size and pos are physical.
built_window(vg, scr, plat, monOk, posOk, checks) ==
    LET b == builder_rect(vg, plat)
        size == to_physical(b.size, scr[3])
        pos == IF b.persisted THEN to_physical(b.pos, scr[3])
                              ELSE center_pos(scr, size)
        is_maximized == unwrap_or(vg.window_is_maximized, FALSE)
        located == monOk /\ posOk
        center == IF located THEN off_screen(pos, scr, checks)
                             ELSE [verdict |-> "center", bounds |-> <<>>]
        panicked == center.verdict = "panic"
    IN  [minimized |-> FALSE,
         visible |-> builder_visible,
         focused |-> FALSE,
         maximized |-> ~ panicked /\ is_maximized,
         size |-> size,
         pos |-> IF center.verdict = "center" THEN center_pos(scr, size)
                                              ELSE pos,
         builder |-> b,
         read_pos |-> pos,
         located |-> located,
         bounds |-> center.bounds,
         recentered |-> center.verdict = "center",
         panicked |-> panicked]

\* lines 116-121: the existing window, un-minimized, shown and focused
refocused(w) ==
    [w EXCEPT !.minimized = FALSE,
              !.visible = TRUE,
              !.focused = TRUE]

\* variant of create_window without the get_window("main") test
create_window_unchecked(ws, vg, scr, plat, buildOk, monOk, posOk, checks) ==
    IF buildOk
    THEN Append(ws, built_window(vg, scr, plat, monOk, posOk, checks))
    ELSE ws

\* create_window(): the windows labelled "main" after the call
create_window(ws, vg, scr, plat, buildOk, monOk, posOk, checks) ==
    IF get_window(ws) # None
    THEN <<refocused(ws[1])>> \o Tail(ws)
    ELSE IF buildOk
         THEN Append(ws, built_window(vg, scr, plat, monOk, posOk, checks))
         ELSE ws

\* the call unwound at line 188 or 190 after it had built a window
create_window_panics(before, after) ==
    Len(after) > Len(before) /\ after[Len(after)].panicked

\* variant of lines 232-236 without the test of is_maximized
saved_doc_when_maximized(vg, size, pos, is_maximized) ==
    [vg EXCEPT
       !.window_is_maximized = Some(is_maximized),
       !.window_size_position =
           IF size[1] >= MinWidth /\ size[2] >= MinHeight
           THEN Some(<<size[1], size[2], pos[1], pos[2]>>)
           ELSE @]

\* lines 232-236: the verge document with the geometry of the window
saved_doc(vg, size, pos, is_maximized) ==
    [vg EXCEPT
       !.window_is_maximized = Some(is_maximized),
       !.window_size_position =
           IF ~ is_maximized /\ size[1] >= MinWidth /\ size[2] >= MinHeight
           THEN Some(<<size[1], size[2], pos[1], pos[2]>>)
           ELSE @]

\* variant of save_window_size_position that stores the physical measures
save_window_size_position_physical(ws, vg, scr, save_to_file, fileOk, readOk) ==
    IF save_to_file /\ ~ fileOk
    THEN [ok |-> FALSE, verge |-> vg, file |-> None]
    ELSE LET file == IF save_to_file THEN Some(vg) ELSE None
         IN  IF get_window(ws) = None \/ ~ readOk
             THEN [ok |-> FALSE, verge |-> vg, file |-> file]
             ELSE [ok |-> TRUE,
                   verge |-> saved_doc(vg, ws[1].size, ws[1].pos,
                                       ws[1].maximized),
                   file |-> file]

\* variant of save_window_size_position that records "not maximized" and
\* returns Ok when there is no main window
save_window_size_position_no_window(ws, vg, scr, save_to_file, fileOk, readOk) ==
    IF save_to_file /\ ~ fileOk
    THEN [ok |-> FALSE, verge |-> vg, file |-> None]
    ELSE LET file == IF save_to_file THEN Some(vg) ELSE None
         IN  IF get_window(ws) = None
             THEN [ok |-> TRUE,
                   verge |-> [vg EXCEPT !.window_is_maximized = Some(FALSE)],
                   file |-> file]
             ELSE IF ~ readOk
             THEN [ok |-> FALSE, verge |-> vg, file |-> file]
             ELSE [ok |-> TRUE,
                   verge |-> saved_doc(vg, to_logical(ws[1].size, scr[3]),
                                       to_logical(ws[1].pos, scr[3]),
                                       ws[1].maximized),
                   file |-> file]

\* save_window_size_position(app_handle, save_to_file).  fileOk is the
\* outcome of verge.save_file(), readOk of the window queries of lines
\* 226-230 (scale_factor, inner_size, outer_position, is_maximized).
\* `verge` is the document after the call, `file` what the call wrote to
\* the verge file (<<>>: nothing).  The size of a maximized window is read
\* but not used.
save_window_size_position(ws, vg, scr, save_to_file, fileOk, readOk) ==
    IF save_to_file /\ ~ fileOk
    THEN [ok |-> FALSE, verge |-> vg, file |-> None]
    ELSE LET file == IF save_to_file THEN Some(vg) ELSE None
         IN  IF get_window(ws) = None \/ ~ readOk
             THEN [ok |-> FALSE, verge |-> vg, file |-> file]
             ELSE [ok |-> TRUE,
                   verge |-> saved_doc(vg, to_logical(ws[1].size, scr[3]),
                                       to_logical(ws[1].pos, scr[3]),
                                       ws[1].maximized),
                   file |-> file]

----------------------------------------------------------------------------
(* The scheme import.                                                      *)

\* resolve_scheme(param): what one run does.  fetchOk is the outcome of
\* PrfItem::from_url, appendOk of append_item, showOk of Notification::show
\* (whose Err is unwrapped: a panic)
resolve_scheme(param, fetchOk, appendOk, showOk) ==
    LET url == scheme_url(param)
    IN  IF fetchOk
        THEN IF appendOk
             THEN [url |-> url, fetched |-> TRUE, appended |-> <<url>>,
                   notes |-> IF showOk THEN <<"Import profile success">>
                                       ELSE <<>>,
                   logged |-> <<>>, returned |-> showOk]
             ELSE [url |-> url, fetched |-> TRUE, appended |-> <<>>,
                   notes |-> <<>>, logged |-> <<>>, returned |-> TRUE]
        ELSE [url |-> url, fetched |-> FALSE, appended |-> <<>>,
              notes |-> IF showOk THEN <<"Import profile failed">> ELSE <<>>,
              logged |-> IF showOk THEN <<url>> ELSE <<>>,
              returned |-> showOk]

\* the effect of one run of resolve_scheme on the state
run_resolve_scheme(param, fetchOk, appendOk, showOk) ==
    LET r == resolve_scheme(param, fetchOk, appendOk, showOk)
    IN  /\ notes' = notes \o r.notes
        /\ applog' = applog \o r.logged
        /\ profiles' = profiles \o r.appended
        /\ imports' = Append(imports,
               [param |-> param, url |-> r.url, fetched |-> r.fetched,
                appended |-> r.appended # <<>>, returned |-> r.returned])

----------------------------------------------------------------------------
(* The statements of resolve_setup.                                        *)

\* variant of the line-89 condition that ignores enable_silent_start
window_wanted_ignores_silent(vg) == TRUE

\* line 89: the condition under which resolve_setup calls create_window
window_wanted(vg) == ~ unwrap_or(vg.enable_silent_start, FALSE)

\* variant of the line-101 condition: exactly one argument
import_triggered_exactly_one(av) == Len(av) = 2

\* line 101: the condition under which resolve_setup runs the scheme import
import_triggered(av) == Len(av) > 1

\* lines 44-105, top to bottom
setup_steps ==
    <<"init_resources", "init_scheme", "startup_script", "resolve_port",
      "patch_verge", "patch_clash", "init_config", "core_init",
      "embed_server", "update_systray", "create_window", "init_launch",
      "init_sysproxy", "update_systray_part", "hotkey_init", "timer_init",
      "resolve_scheme">>

\* the steps a run with this configuration and these arguments takes
taken(step, vg, av) ==
    /\ step = "create_window" => window_wanted(vg)
    /\ step = "resolve_scheme" => import_triggered(av)

RECURSIVE steps_from(_, _, _)
steps_from(i, vg, av) ==
    IF i > Len(setup_steps) THEN <<>>
    ELSE (IF taken(setup_steps[i], vg, av) THEN <<setup_steps[i]>> ELSE <<>>)
         \o steps_from(i + 1, vg, av)

setup_order(vg, av) == steps_from(1, vg, av)

\* position of a step in setup_steps
step_index(step) == CHOOSE i \in 1..Len(setup_steps) : setup_steps[i] = step

----------------------------------------------------------------------------
(* The initial states.                                                     *)

ProgramName == "clash-verge"
RemoteUrl == "https://example.com/p.yaml"

\* the arguments a bootstrap is started with: none, one, two
ArgVectors ==
    {<<>>,
     <<PrefixSlash \o RemoteUrl>>,
     <<RemoteUrl>>,
     <<PrefixSlash \o RemoteUrl, RemoteUrl>>,
     <<RemoteUrl, PrefixSlash \o RemoteUrl>>}

RECURSIVE SeqsUpTo(_, _)
SeqsUpTo(S, n) ==
    IF n = 0 THEN {<<>>}
    ELSE LET shorter == SeqsUpTo(S, n - 1)
         IN  shorter \cup {Append(q, x) : q \in shorter, x \in S}

ConfiguredPorts == {None, Some(7890)}
ClashPorts == {7897}
EphemeralPorts == {49152}

\* persisted window_size_position values: absent, undersized, malformed
WindowRects == {None, Some(<<500, 700, 100, 100>>), Some(<<800, 636, 100>>)}

\* monitors: <<width, height, scale factor>>
Screens == {<<u32(1920), u32(1080), 1>>}
WindowScreens == Screens \cup {<<u32(3840), u32(2160), 2>>}
Platforms == {"linux", "windows", "macos"}

VergeDocs(ports, random, silent, rects, maximized) ==
    [verge_mixed_port : ports,
     enable_random_port : random,
     enable_silent_start : silent,
     window_size_position : rects,
     window_is_maximized : maximized]

InitCommon ==
    /\ rpc = "reset_sysproxy"
    /\ clash \in [mixed_port : ClashPorts]
    /\ disk = [verge |-> verge, clash |-> clash]
    /\ port = None
    /\ probe = None
    /\ log = <<>>
    /\ rlog = <<>>
    /\ errs = {}
    /\ core = "off"
    /\ sysproxy = "unset"
    /\ screen \in Screens
    /\ wins = <<>>
    /\ nbuilt = 0
    /\ ncalls = 0
    /\ imports = <<>>
    /\ notes = <<>>
    /\ applog = <<>>
    /\ profiles = <<>>
    /\ holder = "free"
    /\ lastsave = None

\* the process has just entered resolve_setup
Init ==
    /\ pc = "init_resources"
    /\ verge \in VergeDocs(ConfiguredPorts, OptBool, OptBool, {None}, {None})
    /\ argvs \in {<<ProgramName>> \o a : a \in ArgVectors}
    /\ platform = "linux"
    /\ InitCommon

----------------------------------------------------------------------------
(* resolve_setup, one action per step.                                     *)

\* a step `log_err!(f())`: f runs, its error is logged, the next step follows
log_step(name, next, ok) ==
    /\ pc = name
    /\ ok \/ Cardinality(errs) < MaxErrs
    /\ log' = Append(log, name)
    /\ errs' = log_err(errs, name, ok)
    /\ pc' = next

\* variant of line 44 that unwraps the result instead of logging it
init_resources_unwrapped ==
    /\ pc = "init_resources"
    /\ \E ok \in BOOLEAN :
          /\ ok \/ Cardinality(errs) < MaxErrs
          /\ pc' = IF ok THEN "init_scheme" ELSE "panicked"
    /\ log' = Append(log, "init_resources")
    /\ UNCHANGED <<rpc, verge, clash, disk, argvs, port, probe, rlog, errs,
                   core, sysproxy, screen, platform, wins, nbuilt, ncalls,
                   imports, notes, applog, profiles,
                   holder, lastsave>>

\* line 44
init_resources ==
    /\ \E ok \in BOOLEAN : log_step("init_resources", "init_scheme", ok)
    /\ UNCHANGED <<rpc, verge, clash, disk, argvs, port, probe, rlog, core, sysproxy,
                   screen, platform, wins, nbuilt, ncalls, imports, notes,
                   applog, profiles,
                   holder, lastsave>>

\* line 45
init_scheme ==
    /\ \E ok \in BOOLEAN : log_step("init_scheme", "startup_script", ok)
    /\ UNCHANGED <<rpc, verge, clash, disk, argvs, port, probe, rlog, core, sysproxy,
                   screen, platform, wins, nbuilt, ncalls, imports, notes,
                   applog, profiles,
                   holder, lastsave>>

\* variant of line 46 followed at once by line 76: the port block is missing
startup_script_skips_port ==
    /\ \E ok \in BOOLEAN : log_step("startup_script", "init_config", ok)
    /\ UNCHANGED <<rpc, verge, clash, disk, argvs, port, probe, rlog, core,
                   sysproxy, screen, platform, wins, nbuilt, ncalls, imports,
                   notes, applog, profiles,
                   holder, lastsave>>

\* line 46
startup_script ==
    /\ \E ok \in BOOLEAN : log_step("startup_script", "resolve_port", ok)
    /\ UNCHANGED <<rpc, verge, clash, disk, argvs, port, probe, rlog, core, sysproxy,
                   screen, platform, wins, nbuilt, ncalls, imports, notes,
                   applog, profiles,
                   holder, lastsave>>

\* variant of lines 48-62 in which the listener of a successful probe
\* outlives find_unused_port
resolve_port_keeps_listener ==
    /\ pc = "resolve_port"
    /\ \E bindOk \in BOOLEAN, addrOk \in BOOLEAN, osPort \in EphemeralPorts :
          /\ port' = Some(resolved_port(verge, clash, bindOk, addrOk, osPort))
          /\ probe' = IF unwrap_or(verge.enable_random_port, FALSE)
                      THEN Some([bound |-> bindOk,
                                 addr |-> bindOk /\ addrOk,
                                 os_port |-> IF bindOk /\ addrOk THEN osPort
                                                                ELSE 0])
                      ELSE None
          /\ holder' = IF /\ unwrap_or(verge.enable_random_port, FALSE)
                          /\ bindOk /\ addrOk
                       THEN "probe" ELSE "free"
    /\ log' = Append(log, "resolve_port")
    /\ pc' = "patch_verge"
    /\ UNCHANGED <<rpc, verge, clash, disk, argvs, rlog, errs, core, sysproxy,
                   screen, platform, wins, nbuilt, ncalls, imports, notes,
                   applog, profiles, lastsave>>

\* lines 48-62: `port` is resolved.  The listener of find_unused_port is a
\* local of the match arm of lines 21-24: it is dropped, and the port
\* released, before the function returns
resolve_port ==
    /\ pc = "resolve_port"
    /\ \E bindOk \in BOOLEAN, addrOk \in BOOLEAN, osPort \in EphemeralPorts :
          /\ port' = Some(resolved_port(verge, clash, bindOk, addrOk, osPort))
          /\ probe' = IF unwrap_or(verge.enable_random_port, FALSE)
                      THEN Some([bound |-> bindOk,
                                 addr |-> bindOk /\ addrOk,
                                 os_port |-> IF bindOk /\ addrOk THEN osPort
                                                                ELSE 0])
                      ELSE None
    /\ holder' = "free"
    /\ log' = Append(log, "resolve_port")
    /\ pc' = "patch_verge"
    /\ UNCHANGED <<rpc, verge, clash, disk, argvs, rlog, errs, core, sysproxy,
                   screen, platform, wins, nbuilt, ncalls, imports, notes,
                   applog, profiles, lastsave>>

\* lines 64-68: the port is patched into the verge document, which is saved;
\* the result of save_file is dropped
patch_verge ==
    /\ pc = "patch_verge"
    /\ verge' = [verge EXCEPT !.verge_mixed_port = Some(port[1])]
    /\ \E saveOk \in BOOLEAN :
          disk' = IF saveOk THEN [disk EXCEPT !.verge = verge'] ELSE disk
    /\ log' = Append(log, "patch_verge")
    /\ pc' = "patch_clash"
    /\ UNCHANGED <<rpc, clash, argvs, port, probe, rlog, errs, core, sysproxy,
                   screen, platform, wins, nbuilt, ncalls, imports, notes,
                   applog, profiles,
                   holder, lastsave>>

\* variant of lines 69-72 that keeps the patch only when the save succeeded
patch_clash_rolled_back ==
    /\ pc = "patch_clash"
    /\ \E saveOk \in BOOLEAN :
          /\ clash' = IF saveOk THEN [clash EXCEPT !.mixed_port = port[1]]
                                ELSE clash
          /\ disk' = IF saveOk THEN [disk EXCEPT !.clash = clash'] ELSE disk
    /\ log' = Append(log, "patch_clash")
    /\ pc' = "init_config"
    /\ UNCHANGED <<rpc, verge, argvs, port, probe, rlog, errs, core, sysproxy,
                   screen, platform, wins, nbuilt, ncalls, imports, notes,
                   applog, profiles, holder, lastsave>>

\* lines 69-72: the port is patched into the clash mapping, which is saved;
\* the result of save_config is dropped
patch_clash ==
    /\ pc = "patch_clash"
    /\ clash' = [clash EXCEPT !.mixed_port = port[1]]
    /\ \E saveOk \in BOOLEAN :
          disk' = IF saveOk THEN [disk EXCEPT !.clash = clash'] ELSE disk
    /\ log' = Append(log, "patch_clash")
    /\ pc' = "init_config"
    /\ UNCHANGED <<rpc, verge, argvs, port, probe, rlog, errs, core, sysproxy,
                   screen, platform, wins, nbuilt, ncalls, imports, notes,
                   applog, profiles,
                   holder, lastsave>>

\* line 76
init_config ==
    /\ \E ok \in BOOLEAN : log_step("init_config", "core_init", ok)
    /\ UNCHANGED <<rpc, verge, clash, disk, argvs, port, probe, rlog, core, sysproxy,
                   screen, platform, wins, nbuilt, ncalls, imports, notes,
                   applog, profiles,
                   holder, lastsave>>

\* line 79: the core process is started
core_init ==
    /\ \E ok \in BOOLEAN :
          /\ log_step("core_init", "embed_server", ok)
          /\ core' = IF ok THEN "running" ELSE "failed"
          /\ holder' = IF ok /\ holder = "free" THEN "core" ELSE holder
    /\ UNCHANGED <<rpc, verge, clash, disk, argvs, port, probe, rlog, sysproxy,
                   screen, platform, wins, nbuilt, ncalls, imports, notes,
                   applog, profiles, lastsave>>

\* line 83: embed_server returns nothing
embed_server ==
    /\ pc = "embed_server"
    /\ log' = Append(log, "embed_server")
    /\ pc' = "update_systray"
    /\ UNCHANGED <<rpc, verge, clash, disk, argvs, port, probe, rlog, errs, core,
                   sysproxy, screen, platform, wins, nbuilt, ncalls, imports,
                   notes, applog, profiles,
                   holder, lastsave>>

\* line 86
update_systray ==
    /\ \E ok \in BOOLEAN : log_step("update_systray", "create_window", ok)
    /\ UNCHANGED <<rpc, verge, clash, disk, argvs, port, probe, rlog, core, sysproxy,
                   screen, platform, wins, nbuilt, ncalls, imports, notes,
                   applog, profiles,
                   holder, lastsave>>

\* lines 88-91
setup_create_window ==
    /\ pc = "create_window"
    /\ IF window_wanted(verge)
       THEN /\ \E buildOk \in BOOLEAN, monOk \in BOOLEAN, posOk \in BOOLEAN,
                  checks \in BOOLEAN :
                  wins' = create_window(wins, verge, screen, platform,
                                        buildOk, monOk, posOk, checks)
            /\ nbuilt' = nbuilt + (Len(wins') - Len(wins))
            /\ log' = Append(log, "create_window")
            /\ pc' = IF create_window_panics(wins, wins') THEN "panicked"
                                                          ELSE "init_launch"
       ELSE /\ UNCHANGED <<wins, nbuilt, log>>
            /\ pc' = "init_launch"
    /\ UNCHANGED <<rpc, verge, clash, disk, argvs, port, probe, rlog, errs, core,
                   sysproxy, screen, platform, ncalls, imports, notes, applog,
                   profiles,
                   holder, lastsave>>

\* line 93
init_launch ==
    /\ \E ok \in BOOLEAN : log_step("init_launch", "init_sysproxy", ok)
    /\ UNCHANGED <<rpc, verge, clash, disk, argvs, port, probe, rlog, core, sysproxy,
                   screen, platform, wins, nbuilt, ncalls, imports, notes,
                   applog, profiles,
                   holder, lastsave>>

\* line 94
init_sysproxy ==
    /\ \E ok \in BOOLEAN :
          /\ log_step("init_sysproxy", "update_systray_part", ok)
          /\ sysproxy' = IF ok THEN "set" ELSE "failed"
    /\ UNCHANGED <<rpc, verge, clash, disk, argvs, port, probe, rlog, core,
                   screen, platform, wins, nbuilt, ncalls, imports, notes,
                   applog, profiles,
                   holder, lastsave>>

\* line 96
update_systray_part ==
    /\ \E ok \in BOOLEAN : log_step("update_systray_part", "hotkey_init", ok)
    /\ UNCHANGED <<rpc, verge, clash, disk, argvs, port, probe, rlog, core, sysproxy,
                   screen, platform, wins, nbuilt, ncalls, imports, notes,
                   applog, profiles,
                   holder, lastsave>>

\* line 97
hotkey_init ==
    /\ \E ok \in BOOLEAN : log_step("hotkey_init", "timer_init", ok)
    /\ UNCHANGED <<rpc, verge, clash, disk, argvs, port, probe, rlog, core, sysproxy,
                   screen, platform, wins, nbuilt, ncalls, imports, notes,
                   applog, profiles,
                   holder, lastsave>>

\* line 98
timer_init ==
    /\ \E ok \in BOOLEAN : log_step("timer_init", "resolve_scheme", ok)
    /\ UNCHANGED <<rpc, verge, clash, disk, argvs, port, probe, rlog, core, sysproxy,
                   screen, platform, wins, nbuilt, ncalls, imports, notes,
                   applog, profiles,
                   holder, lastsave>>

\* lines 100-105: block_on(resolve_scheme(argvs[1])); a panic of the import
\* unwinds resolve_setup
setup_resolve_scheme ==
    /\ pc = "resolve_scheme"
    /\ IF import_triggered(argvs)
       THEN /\ \E fetchOk \in BOOLEAN, appendOk \in BOOLEAN, showOk \in BOOLEAN :
                  run_resolve_scheme(argvs[2], fetchOk, appendOk, showOk)
            /\ log' = Append(log, "resolve_scheme")
            /\ pc' = IF imports'[Len(imports')].returned THEN "done"
                                                          ELSE "panicked"
       ELSE /\ UNCHANGED <<imports, notes, applog, profiles, log>>
            /\ pc' = "done"
    /\ UNCHANGED <<rpc, verge, clash, disk, argvs, port, probe, rlog, errs, core,
                   sysproxy, screen, platform, wins, nbuilt, ncalls,
                   holder, lastsave>>

resolve_setup ==
    \/ init_resources
    \/ init_scheme
    \/ startup_script
    \/ resolve_port
    \/ patch_verge
    \/ patch_clash
    \/ init_config
    \/ core_init
    \/ embed_server
    \/ update_systray
    \/ setup_create_window
    \/ init_launch
    \/ init_sysproxy
    \/ update_systray_part
    \/ hotkey_init
    \/ timer_init
    \/ setup_resolve_scheme

----------------------------------------------------------------------------
(* resolve_reset, called once the application is up.                       *)

\* variant of line 110 that returns from resolve_reset on an error
reset_sysproxy_returns_early ==
    /\ pc = "done"
    /\ rpc = "reset_sysproxy"
    /\ \E ok \in BOOLEAN :
          /\ errs' = log_err(errs, "reset_sysproxy", ok)
          /\ sysproxy' = IF ok THEN "restored" ELSE sysproxy
          /\ rpc' = IF ok THEN "stop_core" ELSE "returned"
    /\ rlog' = Append(rlog, "reset_sysproxy")
    /\ UNCHANGED <<pc, verge, clash, disk, argvs, port, probe, log, core,
                   screen, platform, wins, nbuilt, ncalls, imports, notes,
                   applog, profiles,
                   holder, lastsave>>

\* line 110
reset_sysproxy ==
    /\ pc = "done"
    /\ rpc = "reset_sysproxy"
    /\ \E ok \in BOOLEAN :
          /\ errs' = log_err(errs, "reset_sysproxy", ok)
          /\ sysproxy' = IF ok THEN "restored" ELSE sysproxy
    /\ rlog' = Append(rlog, "reset_sysproxy")
    /\ rpc' = "stop_core"
    /\ UNCHANGED <<pc, verge, clash, disk, argvs, port, probe, log, core, screen,
                   platform, wins, nbuilt, ncalls, imports, notes, applog,
                   profiles,
                   holder, lastsave>>

\* line 111
stop_core ==
    /\ pc = "done"
    /\ rpc = "stop_core"
    /\ \E ok \in BOOLEAN :
          /\ errs' = log_err(errs, "stop_core", ok)
          /\ core' = IF ok THEN "stopped" ELSE core
          /\ holder' = IF ok /\ holder = "core" THEN "free" ELSE holder
    /\ rlog' = Append(rlog, "stop_core")
    /\ rpc' = "returned"
    /\ UNCHANGED <<pc, verge, clash, disk, argvs, port, probe, log, sysproxy, screen,
                   platform, wins, nbuilt, ncalls, imports, notes, applog,
                   profiles, lastsave>>

resolve_reset ==
    \/ reset_sysproxy
    \/ stop_core

Next ==
    \/ resolve_setup
    \/ resolve_reset

Spec == Init /\ [][Next]_vars

----------------------------------------------------------------------------
(* The bootstrap next to other processes of the machine.                   *)

\* the steps between the return of find_unused_port and the start of the core
before_core == {"patch_verge", "patch_clash", "init_config", "core_init"}

\* another process binds the resolved port, which nobody holds
other_binds ==
    /\ pc \in before_core
    /\ port # None
    /\ holder = "free"
    /\ holder' = "other"
    /\ UNCHANGED <<pc, rpc, verge, clash, disk, argvs, port, probe, log, rlog, errs,
                   core, sysproxy, screen, platform, wins, nbuilt, ncalls,
                   imports, notes, applog, profiles, lastsave>>

\* resolve_setup is entered with random port enabled
InitPort ==
    /\ Init
    /\ verge.enable_random_port = Some(TRUE)

NextPort ==
    \/ resolve_setup
    \/ other_binds

PortSpec == InitPort /\ [][NextPort]_vars

----------------------------------------------------------------------------
(* The main window after the bootstrap: create_window is called again      *)
(* (tray, hotkey, second instance) and the user acts on the window.        *)

\* create_window(app_handle), called once the application is up
call_create_window ==
    /\ pc = "done"
    /\ ncalls < MaxCalls
    /\ \E buildOk \in BOOLEAN, monOk \in BOOLEAN, posOk \in BOOLEAN,
          checks \in BOOLEAN :
          wins' = create_window(wins, verge, screen, platform,
                                buildOk, monOk, posOk, checks)
    /\ nbuilt' = nbuilt + (Len(wins') - Len(wins))
    /\ ncalls' = ncalls + 1
    /\ pc' = IF create_window_panics(wins, wins') THEN "panicked" ELSE pc
    /\ UNCHANGED <<rpc, verge, clash, disk, argvs, port, probe, log, rlog, errs,
                   core, sysproxy, screen, platform, imports, notes, applog,
                   profiles,
                   holder, lastsave>>

\* the front end shows the window it has loaded into
window_shown ==
    /\ wins # <<>>
    /\ ~ wins[1].visible
    /\ wins' = <<[wins[1] EXCEPT !.visible = TRUE]>> \o Tail(wins)
    /\ UNCHANGED <<pc, rpc, verge, clash, disk, argvs, port, probe, log, rlog, errs,
                   core, sysproxy, screen, platform, nbuilt, ncalls, imports,
                   notes, applog, profiles,
                   holder, lastsave>>

\* the user minimizes the window
window_minimized ==
    /\ wins # <<>>
    /\ wins[1].visible /\ ~ wins[1].minimized
    /\ wins' = <<[wins[1] EXCEPT !.minimized = TRUE, !.focused = FALSE]>>
               \o Tail(wins)
    /\ UNCHANGED <<pc, rpc, verge, clash, disk, argvs, port, probe, log, rlog, errs,
                   core, sysproxy, screen, platform, nbuilt, ncalls, imports,
                   notes, applog, profiles,
                   holder, lastsave>>

\* the window is hidden, or loses the focus
window_hidden ==
    /\ wins # <<>>
    /\ wins[1].focused
    /\ \E hide \in BOOLEAN :
          wins' = <<[wins[1] EXCEPT !.visible = IF hide THEN FALSE ELSE @,
                                    !.focused = FALSE]>> \o Tail(wins)
    /\ UNCHANGED <<pc, rpc, verge, clash, disk, argvs, port, probe, log, rlog, errs,
                   core, sysproxy, screen, platform, nbuilt, ncalls, imports,
                   notes, applog, profiles,
                   holder, lastsave>>

\* the user closes the window: it is destroyed
window_closed ==
    /\ wins # <<>>
    /\ wins' = Tail(wins)
    /\ UNCHANGED <<pc, rpc, verge, clash, disk, argvs, port, probe, log, rlog, errs,
                   core, sysproxy, screen, platform, nbuilt, ncalls, imports,
                   notes, applog, profiles,
                   holder, lastsave>>

\* physical inner sizes and outer positions the user gives the window
LiveSizes == {<<800, 636>>, <<1600, 1272>>, <<500, 700>>}
LivePositions == {<<100, 100>>}

\* the user moves and resizes the window
window_resized ==
    /\ wins # <<>>
    /\ \E size \in LiveSizes, pos \in LivePositions :
          /\ <<size, pos>> # <<wins[1].size, wins[1].pos>>
          /\ wins' = <<[wins[1] EXCEPT !.size = size, !.pos = pos]>>
                     \o Tail(wins)
    /\ UNCHANGED <<pc, rpc, verge, clash, disk, argvs, port, probe, log, rlog, errs,
                   core, sysproxy, screen, platform, nbuilt, ncalls, imports,
                   notes, applog, profiles, holder, lastsave>>

\* the user maximizes the window, or restores it
window_maximized ==
    /\ wins # <<>>
    /\ wins' = <<[wins[1] EXCEPT !.maximized = ~ @]>> \o Tail(wins)
    /\ UNCHANGED <<pc, rpc, verge, clash, disk, argvs, port, probe, log, rlog, errs,
                   core, sysproxy, screen, platform, nbuilt, ncalls, imports,
                   notes, applog, profiles, holder, lastsave>>

\* the number of save_window_size_position calls made so far
nsaves == IF lastsave = None THEN 0 ELSE lastsave[1].n

\* the logical geometry of the live main window (<<>>: there is none)
live_geometry ==
    IF wins = <<>> THEN None
    ELSE Some([size |-> to_logical(wins[1].size, screen[3]),
               pos |-> to_logical(wins[1].pos, screen[3]),
               maximized |-> wins[1].maximized])

\* save_window_size_position(app_handle, save_to_file), called once the
\* application is up (window moved, resized, closed; exit)
call_save_window_size_position ==
    /\ pc = "done"
    /\ nsaves < MaxSaves
    /\ \E save_to_file \in BOOLEAN, fileOk \in BOOLEAN, readOk \in BOOLEAN :
          LET r == save_window_size_position(wins, verge, screen, save_to_file,
                                             fileOk, readOk)
          IN  /\ verge' = r.verge
              /\ disk' = IF r.file = None THEN disk
                         ELSE [disk EXCEPT !.verge = r.file[1]]
              /\ lastsave' = Some([n |-> nsaves + 1,
                                   to_file |-> save_to_file,
                                   ok |-> r.ok,
                                   live |-> live_geometry])
    /\ UNCHANGED <<pc, rpc, clash, argvs, port, probe, log, rlog, errs,
                   core, sysproxy, screen, platform, wins, nbuilt, ncalls,
                   imports, notes, applog, profiles, holder>>

window_events ==
    \/ call_create_window
    \/ window_shown
    \/ window_minimized
    \/ window_hidden
    \/ window_closed

----------------------------------------------------------------------------
(* Specifications that start inside a bootstrap no step of which failed.   *)

\* the state in which resolve_setup reaches `step`, started with the verge
\* document vg (random port off) and the arguments av
reached(step, vg, cl, av) ==
    LET p == configured_port(vg, cl)
        i == step_index(step)
    IN  /\ pc = step
        /\ rpc = "reset_sysproxy"
        /\ verge = [vg EXCEPT !.verge_mixed_port = Some(p)]
        /\ clash = [cl EXCEPT !.mixed_port = p]
        /\ disk = [verge |-> verge, clash |-> clash]
        /\ argvs = av
        /\ port = Some(p)
        /\ probe = None
        /\ log = SelectSeq(SubSeq(setup_steps, 1, i - 1),
                           LAMBDA st : taken(st, vg, av))
        /\ rlog = <<>>
        /\ errs = {}
        /\ core = IF i > step_index("core_init") THEN "running" ELSE "off"
        /\ sysproxy = IF i > step_index("init_sysproxy") THEN "set" ELSE "unset"
        /\ wins = <<>>
        /\ nbuilt = 0
        /\ ncalls = 0
        /\ imports = <<>>
        /\ notes = <<>>
        /\ applog = <<>>
        /\ profiles = <<>>
        /\ holder = IF i > step_index("core_init") THEN "core" ELSE "free"
        /\ lastsave = None

\* resolve_setup is about to create the main window
InitWindow ==
    /\ screen \in WindowScreens
    /\ platform \in Platforms
    /\ \E vg \in VergeDocs({None}, {None}, OptBool, WindowRects, OptBool) :
          reached("create_window", vg, [mixed_port |-> 7897], <<ProgramName>>)

NextWindow ==
    \/ setup_create_window
    \/ init_launch
    \/ init_sysproxy
    \/ update_systray_part
    \/ hotkey_init
    \/ timer_init
    \/ setup_resolve_scheme
    \/ window_events

WindowSpec == InitWindow /\ [][NextWindow]_vars

\* monitors whose measures lie at the ends of the u32 range next to an
\* ordinary one: 150 wide, 150 high, 2^31 + 200 wide, 2^32 - 1 high
GeometryScreens ==
    Screens \cup {<<u32(150), u32(1080), 1>>,
                  <<u32(1920), u32(150), 1>>,
                  <<<<Half \div 2, 200>>, u32(1080), 1>>,
                  <<u32(1920), <<Half - 1, Half - 1>>, 1>>}

\* persisted rects whose corner lies on and next to each bound of the
\* off-screen test on a 1920 x 1080 monitor
GeometryRects ==
    {Some(<<800, 636, x, y>>) : x \in {-401, -400, 100, 1720, 1721},
                               y \in {-201, -200, 100, 880, 881}}

\* resolve_setup is about to create the main window from one of these rects
InitGeometry ==
    /\ screen \in GeometryScreens
    /\ platform = "linux"
    /\ \E vg \in VergeDocs({None}, {None}, {None}, GeometryRects \cup {None},
                            {None}) :
          reached("create_window", vg, [mixed_port |-> 7897], <<ProgramName>>)

NextGeometry == setup_create_window

GeometrySpec == InitGeometry /\ [][NextGeometry]_vars

\* resolve_setup, started silently, is at its last step; the window is
\* created, moved, resized, maximized, saved and closed afterwards
InitSave ==
    /\ screen \in WindowScreens
    /\ platform = "linux"
    /\ \E vg \in VergeDocs({None}, {None}, {Some(TRUE)}, {None}, {None}) :
          reached("resolve_scheme", vg, [mixed_port |-> 7897], <<ProgramName>>)

NextSave ==
    \/ setup_resolve_scheme
    \/ call_create_window
    \/ window_resized
    \/ window_maximized
    \/ window_closed
    \/ call_save_window_size_position

SaveSpec == InitSave /\ [][NextSave]_vars

\* the strings resolve_scheme is run on: up to MaxParts recognized prefixes
\* followed by a rest that starts with none
SchemePieces == {PrefixSlash, PrefixPlain}
SchemeRests ==
    {RemoteUrl, "clash://install-config", RemoteUrl \o "?next=" \o PrefixPlain}

RECURSIVE join(_)
join(q) == IF q = <<>> THEN "" ELSE Head(q) \o join(Tail(q))

SchemeInputs ==
    {join(q) \o rest : q \in SeqsUpTo(SchemePieces, MaxParts), rest \in SchemeRests}

\* resolve_setup, started silently with one argument, is about to import it
InitScheme ==
    /\ screen \in Screens
    /\ platform = "linux"
    /\ \E param \in SchemeInputs :
          reached("resolve_scheme",
                  [verge_mixed_port |-> None, enable_random_port |-> None,
                   enable_silent_start |-> Some(TRUE),
                   window_size_position |-> None,
                   window_is_maximized |-> None],
                  [mixed_port |-> 7897], <<ProgramName, param>>)

NextScheme == setup_resolve_scheme

SchemeSpec == InitScheme /\ [][NextScheme]_vars

----------------------------------------------------------------------------
(* The properties.                                                         *)

is_prefix(p, q) == Len(p) <= Len(q) /\ SubSeq(q, 1, Len(p)) = p
in_seq(x, q) == \E i \in 1..Len(q) : q[i] = x
finished == pc \in {"done", "panicked"}
silent_start == unwrap_or(verge.enable_silent_start, FALSE)

\* the fixed order of the bootstrap steps, as the contract lists them
ContractOrder ==
    <<"init_resources", "init_scheme", "startup_script",
      "resolve_port", "patch_verge", "patch_clash",
      "init_config", "core_init", "embed_server", "update_systray",
      "create_window",
      "init_launch", "init_sysproxy",
      "update_systray_part", "hotkey_init", "timer_init",
      "resolve_scheme">>

\* ContractOrder without the window step of a silent start and without the
\* import of a start that triggers none
ContractRun(silent, triggered) ==
    SelectSeq(ContractOrder,
              LAMBDA st : /\ st = "create_window" => ~ silent
                          /\ st = "resolve_scheme" => triggered)

\* C1: in every run of resolve_setup, whatever fails, the steps started so
\* far are an initial part of the fixed order (window creation only when
\* silent start is off, scheme import only when triggered); the core process
\* is started only with the resolved port written to both configurations,
\* and the scheme import only after timer init.
C1_FixedOrder ==
    /\ is_prefix(log, ContractRun(silent_start, Len(argvs) > 1))
    /\ (pc = "core_init" \/ in_seq("core_init", log)) =>
          /\ port # None
          /\ verge.verge_mixed_port = port
          /\ clash.mixed_port = port[1]
    /\ in_seq("resolve_scheme", log) => in_seq("timer_init", log)

C1_Witness ==
    /\ pc = "done"
    /\ errs # {}
    /\ in_seq("create_window", log)
    /\ in_seq("resolve_scheme", log)
    /\ probe # None

\* C2: right after port resolution the port equals the configured
\* verge_mixed_port when present, else the clash mixed port, whenever random
\* port is off or unset, or the bind probe fails, or the local address cannot
\* be read; and port resolution always yields a port and goes on.
C2_PortFallback ==
    /\ pc = "patch_verge" =>
          /\ port # None
          /\ (\/ ~ unwrap_or(verge.enable_random_port, FALSE)
              \/ ~ probe[1].bound
              \/ ~ probe[1].addr)
             => port[1] = (IF verge.verge_mixed_port # None
                           THEN verge.verge_mixed_port[1]
                           ELSE clash.mixed_port)
    /\ in_seq("resolve_port", log) => port # None /\ pc # "resolve_port"

C2_Witness ==
    /\ pc = "patch_verge"
    /\ verge.enable_random_port = Some(TRUE)
    /\ verge.verge_mixed_port # None
    /\ ~ probe[1].bound
    /\ port = verge.verge_mixed_port

\* C3: with enable_silent_start true no main window is created at any point
\* of resolve_setup, import included; otherwise create_window is invoked
\* exactly once, right after the tray refresh and before launch-at-login and
\* system-proxy init.
C3_SilentStart ==
    /\ silent_start =>
          wins = <<>> /\ nbuilt = 0 /\ ~ in_seq("create_window", log)
    /\ ~ silent_start =>
          /\ Cardinality({i \in 1..Len(log) : log[i] = "create_window"})
                = (IF in_seq("init_launch", log) \/ pc = "init_launch"
                   THEN 1 ELSE 0)
          /\ \A i \in 1..Len(log) : log[i] = "create_window" =>
                /\ i > 1 /\ log[i - 1] = "update_systray"
                /\ ~ in_seq("init_sysproxy", SubSeq(log, 1, i))
                /\ i < Len(log) => log[i + 1] = "init_launch"

C3_Witness ==
    /\ pc = "done"
    /\ verge.enable_silent_start = Some(TRUE)
    /\ imports # <<>>
    /\ wins = <<>>

\* a create_window call: the one of resolve_setup, or a later one
create_window_called ==
    \/ ncalls' = ncalls + 1
    \/ pc = "create_window" /\ Len(log') = Len(log) + 1

C5_OneNotification ==
    (pc = "done" /\ imports # <<>>) =>
        /\ Len(notes) = 1
        /\ notes[1] = (IF imports[1].appended THEN "Import profile success"
                                              ELSE "Import profile failed")

\* one leading recognized prefix removed, if there is one
strip_one_prefix(s) ==
    IF starts_with(s, PrefixSlash) THEN drop(s, Len(PrefixSlash))
    ELSE IF starts_with(s, PrefixPlain) THEN drop(s, Len(PrefixPlain))
    ELSE s

\* C6: the fetch target of resolve_scheme is the input with exactly one
\* leading recognized prefix removed, and the unchanged input when it starts
\* with none.
C6_StripOnePrefix ==
    \A i \in 1..Len(imports) : imports[i].url = strip_one_prefix(imports[i].param)

\* C7, as claimed: the import runs if and only if exactly one command-line
\* argument was given.
C7_ExactlyOneArgument ==
    pc = "done" => (imports # <<>> <=> Len(argvs) - 1 = 1)

\* C7, amended: the import runs if and only if at least one command-line
\* argument was given; it imports the first argument, once, and
\* resolve_setup returns only after the import has returned.
C7_AtLeastOneArgument ==
    /\ finished => (imports # <<>> <=> Len(argvs) - 1 >= 1)
    /\ ~ finished => imports = <<>>
    /\ imports # <<>> =>
          /\ Len(imports) = 1
          /\ imports[1].param = argvs[2]
          /\ in_seq("resolve_scheme", log)
    /\ (pc = "done" /\ imports # <<>>) => imports[1].returned

C7_Witness ==
    /\ pc = "done"
    /\ Len(argvs) = 3
    /\ argvs[2] # argvs[3]
    /\ Len(imports) = 1
    /\ imports[1].param = argvs[2]

\* C8: a failure of a step other than core-process init is only logged: the
\* run goes through every step of the failure-free order, whichever steps
\* failed, also when no window could be created or a configuration could not
\* be saved.
C8_LogAndContinue ==
    /\ finished => log = ContractRun(silent_start, Len(argvs) > 1)
    /\ errs \subseteq {log[i] : i \in 1..Len(log)} \cup
                      {rlog[i] : i \in 1..Len(rlog)}

C8_Witness ==
    /\ pc = "done"
    /\ errs # {}
    /\ "core_init" \notin errs
    /\ in_seq("create_window", log) /\ wins = <<>>
    /\ disk.verge # verge
    /\ in_seq("timer_init", log)

\* C9: a run whose core-process init failed does not go on through the
\* remaining steps: no step is started after it.
C9_CoreFailureEscalated ==
    "core_init" \in errs => log[Len(log)] = "core_init"

\* C10: resolve_reset attempts the system-proxy restore first and the
\* core-process stop second, and has attempted both when it returns, also
\* when the restore failed.
C10_ResetOrder ==
    /\ is_prefix(rlog, <<"reset_sysproxy", "stop_core">>)
    /\ rpc = "returned" => rlog = <<"reset_sysproxy", "stop_core">>
    /\ rpc = "stop_core" => rlog = <<"reset_sysproxy">>

C10_Witness ==
    /\ rpc = "returned"
    /\ "reset_sysproxy" \in errs
    /\ sysproxy # "restored"
    /\ core = "stopped"

\* x > measure - 200 over the integers, measure a u32
exceeds(x, measure) ==
    measure[1] < Half \div 2 /\ x + 200 > measure[1] * Half + measure[2]

\* the off-screen condition over the integers
beyond_bounds(pos, scr) ==
    \/ pos[1] < -400
    \/ exceeds(pos[1], scr[1])
    \/ pos[2] < -200
    \/ exceeds(pos[2], scr[2])

\* C11: a newly built main window is re-centred if and only if the monitor
\* or the position could not be read, or its corner (x, y) on a monitor of
\* size (W, H) has x < -400, x > W - 200, y < -200 or y > H - 200; a corner
\* on a bound is not re-centred.
C11_RecenterIff ==
    \A i \in 1..Len(wins) :
        wins[i].recentered <=>
            (~ wins[i].located \/ beyond_bounds(wins[i].read_pos, screen))

\* b is measure - 200 over the integers
exact_bound(b, measure) ==
    IF measure[1] = 0 /\ measure[2] < 200
    THEN b = measure[2] - 200
    ELSE LET d == wrapping_sub(measure, 200)
         IN  d[1] < Half \div 2 /\ b = d[1] * Half + d[2]

\* C20: the bounds W - 200 and H - 200 of the off-screen test are computed
\* without underflow or overflow for every monitor size: the computation
\* never fails, and each bound that is computed is the integer W - 200
\* (H - 200), negative when the measure is below 200 and unchanged by the
\* conversion to i32 when the measure is large.
C20_ExactBounds ==
    \A i \in 1..Len(wins) :
        /\ ~ wins[i].panicked
        /\ \A k \in 1..Len(wins[i].bounds) :
              exact_bound(wins[i].bounds[k], screen[k])

\* the step builds a window labelled "main"
window_built == nbuilt' = nbuilt + 1

\* the platform default inner size of lines 141-156
default_size ==
    <<DefaultWidth,
      IF platform = "windows" THEN DefaultHeightWindows ELSE DefaultHeightOther>>

\* C12: a window is built from the persisted rect when that rect has exactly
\* four elements [w, h, x, y], with the size (max(w, 600), max(h, 520)) at
\* (x, y); when the rect is absent or has another length it is built with
\* the platform default size and centred; every window built is at least
\* 600 wide and 520 high.
C12_BuilderRect ==
    [][window_built =>
         LET w == wins'[Len(wins')]
             wsp == verge.window_size_position
         IN  /\ (wsp # None /\ Len(wsp[1]) = 4) =>
                   /\ w.builder.persisted
                   /\ w.builder.size = <<Max(wsp[1][1], 600), Max(wsp[1][2], 520)>>
                   /\ w.builder.pos = <<wsp[1][3], wsp[1][4]>>
             /\ (wsp = None \/ Len(wsp[1]) # 4) =>
                   /\ ~ w.builder.persisted
                   /\ w.builder.size = default_size
                   /\ w.pos = center_pos(screen, w.size)
             /\ w.size = to_physical(w.builder.size, screen[3])
             /\ w.builder.size[1] >= 600 /\ w.builder.size[2] >= 520]_vars

\* a window was built from the persisted rect [500, 700, 100, 100]
C12_Witness ==
    /\ wins # <<>>
    /\ verge.window_size_position = Some(<<500, 700, 100, 100>>)
    /\ wins[1].builder.persisted
    /\ wins[1].builder.size = <<600, 700>>
    /\ wins[1].builder.pos = <<100, 100>>

\* the step is a save_window_size_position call
save_called == lastsave' # lastsave

\* C13: save_window_size_position replaces the persisted rect only when the
\* live window is not maximized and its logical inner size is at least
\* 600 x 520, and then with [w, h, x, y] of the window; in every other case
\* the rect is left as it was.  So a rect it writes is never undersized and
\* a save of a maximized window keeps the last non-maximized rect.
C13_ReplaceOnly ==
    [][save_called =>
         IF /\ lastsave'[1].ok
            /\ ~ live_geometry[1].maximized
            /\ live_geometry[1].size[1] >= 600
            /\ live_geometry[1].size[2] >= 520
         THEN verge'.window_size_position =
                  Some(live_geometry[1].size \o live_geometry[1].pos)
         ELSE verge'.window_size_position = verge.window_size_position]_vars

\* a maximized window was saved and the rect of the earlier save is kept
C13_Witness ==
    /\ lastsave # None /\ lastsave[1].ok /\ lastsave[1].n = 2
    /\ lastsave[1].live[1].maximized
    /\ verge.window_is_maximized = Some(TRUE)
    /\ verge.window_size_position = Some(<<800, 636, 100, 100>>)

\* C14: without a main window save_window_size_position returns an error,
\* whatever save_to_file is, and leaves window_size_position and
\* window_is_maximized as they were.
C14_NoWindow ==
    [][(save_called /\ wins = <<>>) =>
          /\ ~ lastsave'[1].ok
          /\ verge' = verge]_vars

\* the call was made with save_to_file = true while no window existed and
\* a rect had been persisted before
C14_Witness ==
    /\ lastsave # None /\ lastsave[1].to_file /\ ~ lastsave[1].ok
    /\ lastsave[1].live = None
    /\ verge.window_size_position # None
    /\ disk.verge = verge

\* the last save_window_size_position call returned Ok for a window that
\* was not maximized and at least 600 x 520
rect_saved ==
    /\ lastsave # None /\ lastsave[1].ok
    /\ ~ lastsave[1].live[1].maximized
    /\ lastsave[1].live[1].size[1] >= 600
    /\ lastsave[1].live[1].size[2] >= 520

\* C15: a window of logical size (w, h) >= (600, 520) at (x, y) that is not
\* maximized is saved; the next window that is built is given exactly the
\* size (w, h) and the position (x, y) of the persisted rect, not the
\* platform default.
C15_RoundTrip ==
    [][(window_built /\ rect_saved) =>
         LET w == wins'[Len(wins')]
         IN  /\ w.builder.persisted
             /\ w.builder.size = lastsave[1].live[1].size
             /\ w.builder.pos = lastsave[1].live[1].pos]_vars

\* a window of 800 x 636 at (100, 100) on a monitor of scale factor 1 was
\* saved and closed, and the next window was built with that rect
C15_Witness ==
    /\ rect_saved /\ screen[3] = 1
    /\ lastsave[1].live[1].size = <<800, 636>>
    /\ lastsave[1].live[1].pos = <<100, 100>>
    /\ nbuilt = 2 /\ wins # <<>>
    /\ wins[1].builder.size = <<800, 636>>
    /\ wins[1].builder.pos = <<100, 100>>
    /\ wins[1].size = <<800, 636>> /\ wins[1].pos = <<100, 100>>

\* C17: when save_window_size_position(save_to_file = true) has returned
\* Ok, the verge file holds the geometry captured by that call: the
\* maximized flag of the window and, for a window that is not maximized and
\* at least 600 x 520, its rect.
C17_FlushAfterWrite ==
    (lastsave # None /\ lastsave[1].ok /\ lastsave[1].to_file) =>
        /\ disk.verge.window_is_maximized = Some(lastsave[1].live[1].maximized)
        /\ rect_saved =>
              disk.verge.window_size_position =
                  Some(lastsave[1].live[1].size \o lastsave[1].live[1].pos)

\* the window-creation step of resolve_setup finishes with a window built,
\* silent start being disabled and no geometry being persisted
first_window_built ==
    /\ pc = "create_window" /\ pc' = "init_launch"
    /\ window_built
    /\ ~ silent_start
    /\ verge.window_size_position = None
    /\ verge.window_is_maximized = None

\* C16 as claimed: with silent start disabled and no persisted geometry,
\* when the window-creation step has finished successfully the main window
\* exists, is visible, is centred and has the platform default size.
C16_VisibleDefault ==
    [][first_window_built =>
         /\ Len(wins') = 1
         /\ wins'[1].visible
         /\ wins'[1].pos = center_pos(screen, wins'[1].size)
         /\ wins'[1].size = to_physical(default_size, screen[3])]_vars

\* C16, amended: with silent start disabled and no persisted geometry, when
\* the window-creation step has finished successfully the main window
\* exists, is centred, has the platform default size, is not maximized and
\* is still hidden: create_window builds it invisible and shows only a
\* window that existed before the call.
C16_HiddenDefault ==
    [][first_window_built =>
         /\ Len(wins') = 1
         /\ ~ wins'[1].visible
         /\ ~ wins'[1].maximized
         /\ wins'[1].pos = center_pos(screen, wins'[1].size)
         /\ wins'[1].size = to_physical(default_size, screen[3])]_vars

\* the step has just built the hidden, centred, default-sized window
C16_Witness ==
    /\ pc = "init_launch" /\ ~ silent_start
    /\ verge.window_size_position = None /\ verge.window_is_maximized = None
    /\ Len(wins) = 1 /\ nbuilt = 1
    /\ ~ wins[1].visible
    /\ wins[1].size = to_physical(default_size, screen[3])
    /\ wins[1].pos = center_pos(screen, wins[1].size)

\* the step starts the core process
core_started == pc = "core_init" /\ core' # core

\* C18: at the moment the core process is started, verge_mixed_port of the
\* verge document and "mixed-port" of the clash mapping both hold the one
\* resolved port (the probed port when the probe succeeded), with random
\* port on or off, the probe succeeding or failing, and whether or not
\* either save succeeded.
C18_PortInBoth ==
    [][core_started =>
         /\ port # None
         /\ verge.verge_mixed_port = Some(port[1])
         /\ get_mixed_port(clash) = port[1]
         /\ (probe # None /\ probe[1].addr) => port[1] = probe[1].os_port]_vars

\* the core was started on a probed port that neither file holds, both
\* saves having failed
C18_Witness ==
    /\ pc = "embed_server" /\ core = "running"
    /\ probe # None /\ probe[1].addr
    /\ verge.verge_mixed_port = Some(probe[1].os_port)
    /\ clash.mixed_port = probe[1].os_port
    /\ disk.verge.verge_mixed_port # verge.verge_mixed_port
    /\ disk.clash.mixed_port # clash.mixed_port

\* find_unused_port has returned the port it probed
probed == probe # None /\ probe[1].addr /\ port = Some(probe[1].os_port)

\* C19: the probe binds and releases: once find_unused_port has returned a
\* probed port, and until the core is started, the bootstrap holds no
\* binding on that port (it is free, or another process has bound it).
C19_BindThenRelease ==
    (probed /\ pc \in before_core) => holder \in {"free", "other"}

\* another process has bound the probed port before the core is started
C19_Witness ==
    /\ probed /\ pc = "core_init"
    /\ holder = "other"
    /\ verge.verge_mixed_port = port /\ clash.mixed_port = port[1]

====
